---- MODULE Spec2Model ----
(***************************************************************************)
(* Satellite-data acquisition pipeline of server.js: the multipart         *)
(* decoder (parseMultipartResponse), the token manager (getAccessToken),   *)
(* the fetch orchestrator (getSatelliteData), the result cache and the two *)
(* cron tasks.                                                             *)
(*                                                                         *)
(* Specifications:                                                         *)
(*   SpecParse  the decoder run on synthetic multipart buffers, one loop   *)
(*              iteration per step;                                        *)
(*   Spec       the service: concurrent fetches, the renewal timer, the    *)
(*              sweep, cache-clear and the clock;                          *)
(*   SpecLive   Spec with the fairness of the clock;                       *)
(*   SpecAdmin  the service with a well-behaved token endpoint, and the    *)
(*              stats route;                                               *)
(*   SpecCloud  calls that differ in maxCloudCoverage only;                *)
(*   SpecApi    one request body through the two POST routes that fetch    *)
(*              by bbox, with every answer of the two endpoints.           *)
(* Buffers are sequences of one-character strings (bytes); offsets are     *)
(* 0-based as in the source.                                               *)
(***************************************************************************)
EXTENDS Integers, Sequences, FiniteSets, TLC

VARIABLES
    \* ---- decoder (SpecParse)
    inBoundary,   \* the boundary string given to parseMultipartResponse
    inParts,      \* how the buffer was built: the sequence of parts
    inTail,       \* how the buffer ends: "closing", "none" or "cut"
    buffer,       \* the raw byte buffer
    end,          \* let end
    pos,          \* let pos
    parts,        \* const parts = {}
    ppc,          \* "loop" while the while-loop runs, "returned" after return
    \* ---- service (Spec)
    now,          \* Date.now(), in ms since the process started
    token,        \* this.token
    tokenExpiry,  \* this.tokenExpiry
    cache,        \* the Map cache: cacheKey -> [timestamp, data]
    pc,           \* where each caller is suspended
    req,          \* each caller's arguments and cache-lookup result
    lastGat,      \* how the getAccessToken call completed last ended
    ev,           \* what the last step did (returned value, error, report)
    \* ---- route handlers (SpecApi)
    reqBody       \* the route and req.body of the request under test

pvars == <<inBoundary, inParts, inTail, buffer, end, pos, parts, ppc>>
svars == <<now, token, tokenExpiry, cache, pc, req, lastGat, ev>>
vars == <<pvars, svars, reqBody>>

(***************************************************************************)
(* Bounds of the model.                                                    *)
(***************************************************************************)
MaxParts == 2
MaxBody == 3
NumFetch == 1
MaxTicks == 3

(***************************************************************************)
(* Bytes and Buffer primitives.                                            *)
(***************************************************************************)
CR == "\r"
LF == "\n"
CRLF == <<CR, LF>>
Dash == "-"

Null == "null"

Max(a, b) == IF a > b THEN a ELSE b
Min(a, b) == IF a < b THEN a ELSE b

\* Whether pat occurs in buf at 0-based offset i.
OccursAt(buf, pat, i) ==
    /\ i >= 0
    /\ i + Len(pat) <= Len(buf)
    /\ \A k \in 1..Len(pat) : buf[i + k] = pat[k]

\* Buffer.prototype.indexOf(value, byteOffset): the first offset >= from at
\* which value occurs, or -1.
IndexOf(buf, pat, from) ==
    LET hits == {i \in from .. (Len(buf) - Len(pat)) : OccursAt(buf, pat, i)}
    IN  IF hits = {} THEN -1 ELSE CHOOSE i \in hits : \A j \in hits : i <= j

\* Buffer.prototype.slice(start, end): negative offsets count from the end,
\* offsets are clamped to the buffer, an empty range gives an empty buffer.
Slice(buf, s, e) ==
    LET n == Len(buf)
        s1 == IF s < 0 THEN Max(n + s, 0) ELSE Min(s, n)
        e1 == IF e < 0 THEN Max(n + e, 0) ELSE Min(e, n)
    IN  IF e1 <= s1 THEN <<>> ELSE [k \in 1..(e1 - s1) |-> buf[s1 + k]]

\* headers.match(/Content-ID: <([^>]+)>/): whether it matches, and the
\* first capture of the leftmost match.
CidPrefix == <<"C","o","n","t","e","n","t","-","I","D",":"," ","<">>

ContentIdMatch(headers) ==
    LET n == Len(headers)
        m == Len(CidPrefix)
        \* offset of the first ">" at or after offset i, or -1
        close(i) == IndexOf(headers, <<">">>, i)
        ok(i) == /\ OccursAt(headers, CidPrefix, i)
                 /\ close(i + m) > i + m
        hits == {i \in 0..(n - 1) : ok(i)}
    IN  IF hits = {} THEN [found |-> FALSE, id |-> <<>>]
        ELSE LET i == CHOOSE h \in hits : \A j \in hits : h <= j
             IN  [found |-> TRUE, id |-> Slice(headers, i + m, close(i + m))]

\* parts[contentId] = content
MapPut(m, k, v) == [x \in (DOMAIN m) \cup {k} |-> IF x = k THEN v ELSE m[x]]
EmptyMap == [x \in {} |-> <<>>]

(***************************************************************************)
(* parseMultipartResponse(buffer, boundary)                                *)
(***************************************************************************)
boundaryBuffer(boundary) == <<Dash, Dash>> \o boundary
endBoundaryBuffer(boundary) == <<Dash, Dash>> \o boundary \o <<Dash, Dash>>

\* let end = buffer.indexOf(endBoundaryBuffer); if (end === -1) end = buffer.length
ParseEnd(buf, boundary) ==
    LET e == IndexOf(buf, endBoundaryBuffer(boundary), 0)
    IN  IF e = -1 THEN Len(buf) ELSE e

\* let pos = buffer.indexOf(boundaryBuffer, start)
ParseStart(buf, boundary) == IndexOf(buf, boundaryBuffer(boundary), 0)

\* const contentEnd = nextBoundary !== -1 ? nextBoundary - 4 : end - 2
ContentEnd(nextBoundary, e) ==
    IF nextBoundary # -1 THEN nextBoundary - 4 ELSE e - 2

\* while (pos !== -1 && pos < end)
LoopCond(p, e) == p # -1 /\ p < e

\* Mutant of the loop's advance: the next marker is searched from the
\* current one, not from behind its header block.
ParseIter_Rescans(buf, boundary, e, st) ==
    LET bb == boundaryBuffer(boundary)
        headersEnd == IndexOf(buf, <<CR, LF, CR, LF>>, st.pos)
    IN  IF headersEnd = -1
        THEN [st EXCEPT !.run = FALSE]
        ELSE LET headers == Slice(buf, st.pos + Len(bb) + 2, headersEnd)
                 contentIdMatch == ContentIdMatch(headers)
                 nextBoundary == IndexOf(buf, bb, headersEnd + 4)
                 content == Slice(buf, headersEnd + 4, ContentEnd(nextBoundary, e))
                 np == IF contentIdMatch.found
                       THEN MapPut(st.parts, contentIdMatch.id, content)
                       ELSE st.parts
             IN  [pos |-> IndexOf(buf, bb, st.pos), parts |-> np, run |-> TRUE]

\* One iteration of the while loop from state st = [pos, parts, run]:
\* run becomes FALSE on the break.
ParseIter(buf, boundary, e, st) ==
    LET bb == boundaryBuffer(boundary)
        headersEnd == IndexOf(buf, <<CR, LF, CR, LF>>, st.pos)
    IN  IF headersEnd = -1
        THEN [st EXCEPT !.run = FALSE]
        ELSE LET headers == Slice(buf, st.pos + Len(bb) + 2, headersEnd)
                 contentIdMatch == ContentIdMatch(headers)
                 nextBoundary == IndexOf(buf, bb, headersEnd + 4)
                 content == Slice(buf, headersEnd + 4, ContentEnd(nextBoundary, e))
                 np == IF contentIdMatch.found
                       THEN MapPut(st.parts, contentIdMatch.id, content)
                       ELSE st.parts
             IN  [pos |-> IndexOf(buf, bb, headersEnd + 4), parts |-> np,
                  run |-> TRUE]

RECURSIVE ParseLoop(_, _, _, _)
ParseLoop(buf, boundary, e, st) ==
    IF st.run /\ LoopCond(st.pos, e)
    THEN ParseLoop(buf, boundary, e, ParseIter(buf, boundary, e, st))
    ELSE st.parts

\* The whole function: the mapping it returns.
parseMultipartResponse(buf, boundary) ==
    ParseLoop(buf, boundary, ParseEnd(buf, boundary),
              [pos |-> ParseStart(buf, boundary), parts |-> EmptyMap, run |-> TRUE])

(***************************************************************************)
(* Synthetic multipart buffers: the decoder's inputs.                      *)
(***************************************************************************)
Ids == {<<"a">>, <<"c">>}
Boundaries == {<<"b">>}
Tails == {"closing", "none", "cut"}

\* The body of length n written for Content-ID id.
BodyPattern(id) == IF id = <<"a">> THEN <<"x", "y">> ELSE <<"y", "x">>
Body(id, n) == [k \in 1..n |-> BodyPattern(id)[((k - 1) % 2) + 1]]

PartSpecs == [id : Ids, hasId : BOOLEAN, len : 0..MaxBody]

HeaderOf(p) ==
    IF p.hasId THEN CidPrefix \o p.id \o <<">">> ELSE <<"T", ":", " ", "p">>

\* --boundary CRLF headers CRLF CRLF body CRLF
EncodePart(p, boundary) ==
    boundaryBuffer(boundary) \o CRLF \o HeaderOf(p) \o CRLF \o CRLF
        \o Body(p.id, p.len) \o CRLF

RECURSIVE EncodeParts(_, _)
EncodeParts(ps, boundary) ==
    IF ps = <<>> THEN <<>>
    ELSE EncodePart(Head(ps), boundary) \o EncodeParts(Tail(ps), boundary)

\* The tail: the closing marker, nothing, or a marker whose header block is
\* cut off before its blank line.
EncodeTail(tail, boundary) ==
    CASE tail = "closing" -> endBoundaryBuffer(boundary) \o CRLF
      [] tail = "none" -> <<>>
      [] tail = "cut" -> boundaryBuffer(boundary) \o CRLF \o <<"T", ":", " ", "p">> \o CRLF

Encode(ps, tail, boundary) == EncodeParts(ps, boundary) \o EncodeTail(tail, boundary)

PartSeqs == UNION {[1..n -> PartSpecs] : n \in 0..MaxParts}

(***************************************************************************)
(* The decoder as a state machine: one loop iteration per step.            *)
(***************************************************************************)
HeadersEnd == IndexOf(buffer, <<CR, LF, CR, LF>>, pos)

\* An iteration that finds the header block's end and goes round the loop.
ParseStep ==
    /\ ppc = "loop"
    /\ LoopCond(pos, end)
    /\ HeadersEnd # -1
    /\ LET st == ParseIter(buffer, inBoundary, end,
                           [pos |-> pos, parts |-> parts, run |-> TRUE])
       IN  /\ pos' = st.pos
           /\ parts' = st.parts
    /\ UNCHANGED <<inBoundary, inParts, inTail, buffer, end, ppc, svars, reqBody>>

\* if (headersEnd === -1) break; return parts
ParseBreak ==
    /\ ppc = "loop"
    /\ LoopCond(pos, end)
    /\ HeadersEnd = -1
    /\ ppc' = "returned"
    /\ UNCHANGED <<inBoundary, inParts, inTail, buffer, end, pos, parts, svars, reqBody>>

\* The loop condition fails: return parts
ParseReturn ==
    /\ ppc = "loop"
    /\ ~LoopCond(pos, end)
    /\ ppc' = "returned"
    /\ UNCHANGED <<inBoundary, inParts, inTail, buffer, end, pos, parts, svars, reqBody>>

(***************************************************************************)
(* The service: token manager, orchestrator, cache, cron tasks.            *)
(***************************************************************************)
\* const CACHE_DURATION = process.env.CACHE_DURATION || 3600000
CACHE_DURATION == 3600000
MsPerSecond == 1000
TickMs == 1800 * MsPerSecond

Undefined == "undefined"

\* JavaScript numbers and the non-numbers a number-valued field holds.
Num(n) == [kind |-> "number", v |-> n]
NaN == [kind |-> "NaN", v |-> 0]
NullNum == [kind |-> "null", v |-> 0]
UndefinedNum == [kind |-> "undefined", v |-> 0]

\* Callers of getAccessToken: the in-flight request handlers and the token
\* refresh task.
Cron == 0
Fetchers == 1..NumFetch
Procs == Fetchers \cup {Cron}

\* JSON values of a request body: numbers, strings, null, and undefined for
\* a member that is omitted.
JNum(n) == [t |-> "number", n |-> n, s |-> ""]
JStr(s) == [t |-> "string", n |-> 0, s |-> s]
JNull == [t |-> "null", n |-> 0, s |-> ""]
JUndefined == [t |-> "undefined", n |-> 0, s |-> ""]

\* String(v), as a template literal converts a value.
Str(v) ==
    CASE v.t = "number" -> ToString(v.n)
      [] v.t = "string" -> v.s
      [] v.t = "null" -> "null"
      [] v.t = "undefined" -> "undefined"

\* const { width = 512, height = 512, maxCloudCoverage = 30 } = options:
\* the default replaces undefined only.
DefaultSize == 512
DefaultCloud == 30
Default(v) == IF v = JUndefined THEN JNum(DefaultSize) ELSE v
DefaultCloudOf(v) == IF v = JUndefined THEN JNum(DefaultCloud) ELSE v

\* Arguments of getSatelliteData: bbox, and the width, height and
\* maxCloudCoverage of options after the defaults.
Requests ==
    { [bbox |-> <<JNum(1), JNum(2), JNum(3), JNum(4)>>,
       width |-> JNum(512), height |-> JNum(512),
       maxCloudCoverage |-> JNum(DefaultCloud)],
      [bbox |-> <<JNum(1), JNum(2), JNum(3), JNum(4)>>,
       width |-> JNum(256), height |-> JNum(512),
       maxCloudCoverage |-> JNum(DefaultCloud)] }

\* Two calls that differ in maxCloudCoverage only.
CloudRequests ==
    { [bbox |-> <<JNum(1), JNum(2), JNum(3), JNum(4)>>,
       width |-> JNum(512), height |-> JNum(512),
       maxCloudCoverage |-> JNum(DefaultCloud)],
      [bbox |-> <<JNum(1), JNum(2), JNum(3), JNum(4)>>,
       width |-> JNum(512), height |-> JNum(512),
       maxCloudCoverage |-> JNum(10)] }

\* An element of Array.prototype.join: null and undefined give "".
JoinStr(v) == IF v.t \in {"null", "undefined"} THEN "" ELSE Str(v)

RECURSIVE Join(_)
\* bbox.join(",")
Join(xs) ==
    IF xs = <<>> THEN ""
    ELSE IF Len(xs) = 1 THEN JoinStr(xs[1])
    ELSE JoinStr(xs[1]) \o "," \o Join(Tail(xs))

\* Mutant of the key: maxCloudCoverage takes part in it.
CacheKey_WithCloud(r) ==
    Join(r.bbox) \o "-" \o Str(r.width) \o "-" \o Str(r.height)
        \o "-" \o Str(r.maxCloudCoverage)

\* const cacheKey = `${bbox.join(",")}-${width}-${height}`
CacheKey(r) ==
    Join(r.bbox) \o "-" \o Str(r.width) \o "-" \o Str(r.height)

\* What the token endpoint can answer with a success status: the JSON
\* fields access_token and expires_in, each possibly missing.
TokenPayloads ==
    {[access_token |-> "t1", expires_in |-> Num(0)],
     [access_token |-> "t2", expires_in |-> Num(3600)],
     [access_token |-> Undefined, expires_in |-> Num(3600)],
     [access_token |-> "t1", expires_in |-> UndefinedNum]}
\* Those that carry an access_token, with every lifetime: what the service
\* under the clock is answered.
TokenBearing ==
    {payload \in TokenPayloads : payload.access_token # Undefined}
WellFormed(payload) ==
    payload.access_token # Undefined /\ payload.expires_in # UndefinedNum

\* JavaScript truthiness of this.token
Truthy(t) == t \notin {Null, Undefined}

\* this.tokenExpiry > Date.now()   (null > n and NaN > n are false)
ExpiryAfter(expiry, t) == expiry.kind = "number" /\ expiry.v > t

\* Mutants of the validity test: the comparison turned round, and the
\* expiry instant itself counted as valid.
TokenValid_Inverted ==
    Truthy(token) /\ tokenExpiry.kind = "number" /\ tokenExpiry.v < now
TokenValid_Inclusive ==
    Truthy(token) /\ tokenExpiry.kind = "number" /\ tokenExpiry.v >= now

\* if (this.token && this.tokenExpiry > Date.now()) return this.token
TokenValid == Truthy(token) /\ ExpiryAfter(tokenExpiry, now)

\* this.tokenExpiry = Date.now() + response.data.expires_in * 1000
NewExpiry(expires_in, t) ==
    IF expires_in.kind = "number"
    THEN Num(t + expires_in.v * MsPerSecond)
    ELSE NaN

\* Mutant of the age test: an entry aged exactly CACHE_DURATION is live.
CacheLive_Inclusive(k) ==
    k \in DOMAIN cache /\ now - cache[k].timestamp <= CACHE_DURATION

\* if (cache.has(cacheKey)) { ... Date.now() - cached.timestamp < CACHE_DURATION
CacheLive(k) == k \in DOMAIN cache /\ now - cache[k].timestamp < CACHE_DURATION

\* The cache lookup of getSatelliteData: "hit", "stale" or "absent".
Lookup(k) ==
    IF k \notin DOMAIN cache THEN "absent"
    ELSE IF CacheLive(k) THEN "hit" ELSE "stale"

\* What the imagery endpoint can answer with a success status: a multipart
\* body with the boundary of its content-type header. The complete body
\* carries one part per output band; the cut one has a boundary marker
\* whose header block never ends.
ImageryBoundary == <<"b">>
BandPart(id) == [id |-> id, hasId |-> TRUE, len |-> 1]
CompleteBody == [parts |-> <<BandPart(<<"a">>), BandPart(<<"c">>)>>, tail |-> "closing"]
CutBody == [parts |-> <<BandPart(<<"a">>)>>, tail |-> "cut"]
CompleteBodies == {CompleteBody}
ImageryBodies == {CompleteBody, CutBody}

\* response.data
BodyBytes(body) == Encode(body.parts, body.tail, ImageryBoundary)

\* A boundary marker of buf that no CRLF CRLF follows.
CutMarker(buf, boundary) ==
    \E i \in 0..(Len(buf) - 1) :
        /\ OccursAt(buf, boundaryBuffer(boundary), i)
        /\ IndexOf(buf, <<CR, LF, CR, LF>>, i) = -1

\* const parts = this.parseMultipartResponse(response.data, boundary),
\* and whether the body lacks structure, for each body.
Decoded ==
    [body \in ImageryBodies |->
        [parts |-> parseMultipartResponse(BodyBytes(body), ImageryBoundary),
         cut |-> CutMarker(BodyBytes(body), ImageryBoundary)]]

\* parts.x ? `data:...;base64,${parts.x.toString("base64")}` : null
\* The data URI is held as the bytes it encodes.
DataUri(ps, id) ==
    IF id \in DOMAIN ps THEN [present |-> TRUE, bytes |-> ps[id]]
    ELSE [present |-> FALSE, bytes |-> <<>>]

\* The assembled result: one field per band, and metadata with the time of
\* assembly, the bbox and the cloud coverage bound of the call.
Payload(r, t, ps) ==
    [timestamp |-> t, bbox |-> r.bbox, cloudCoverage |-> r.maxCloudCoverage,
     bands |-> [id \in Ids |-> DataUri(ps, id)]]

\* cache.set(cacheKey, { timestamp: Date.now(), data: result })
CacheSet(c, k, t, data) == MapPut(c, k, [timestamp |-> t, data |-> data])

\* Mutant of the sweep's test: an entry aged exactly CACHE_DURATION goes.
SweepRemoves_Inclusive(k) == now - cache[k].timestamp >= CACHE_DURATION

\* if (now - value.timestamp > CACHE_DURATION) cache.delete(key)
SweepRemoves(k) == now - cache[k].timestamp > CACHE_DURATION

NoRequest == [bbox |-> <<>>, width |-> 0, height |-> 0, maxCloudCoverage |-> 0]
NoPayload ==
    [timestamp |-> -1, bbox |-> <<>>, cloudCoverage |-> JUndefined,
     bands |-> [id \in Ids |-> DataUri(EmptyMap, id)]]
Idle == [key |-> Null, look |-> "none", r |-> NoRequest]

\* What a step did. gat: what getAccessToken did ("cached": returned the
\* cached token, "sent": sent an exchange request, "resolved": returned the
\* token of a response, "threw"); tok: the token it returned; resp: the
\* response handled; img: whether an imagery request was sent; out: how
\* the caller's operation ended ("pending", "data", "error", "done");
\* val: the payload returned; n: the count reported; key: the cacheKey of
\* the fetch.
\* keys, oldest: the keys and the oldestEntry of a stats report; r: the
\* arguments of the getSatelliteData call that started.
Event(op, p, key, gat, tok, resp, img, out, val, n) ==
    [op |-> op, p |-> p, key |-> key, gat |-> gat, tok |-> tok, resp |-> resp,
     img |-> img, out |-> out, val |-> val, n |-> n,
     keys |-> {}, oldest |-> NullNum, r |-> NoRequest]
Called(e, r) == [e EXCEPT !.r = r]
NoEvent ==
    Event("none", Cron, Null, "no", Null, "none", FALSE, "none", NoPayload, 0)

\* The outcome of a completed getAccessToken call.
Returned(t) == [out |-> "ok", tok |-> t]
Threw == [out |-> "threw", tok |-> Null]
NoCall == [out |-> "none", tok |-> Null]

\* Mutant of the lookup: a call that finds its entry stale deletes it.
FetchStart_Evicts(p, r) ==
    /\ pc[p] = "idle"
    /\ LET k == CacheKey(r)
           look == Lookup(k)
       IN  /\ cache' = IF look = "stale"
                       THEN [x \in (DOMAIN cache) \ {k} |-> cache[x]]
                       ELSE cache
           /\ IF look = "hit"
              THEN /\ ev' = Called(Event("fetch", p, k, "no", Null, "none", FALSE,
                                      "data", cache[k].data, 0), r)
                   /\ UNCHANGED <<pc, req, lastGat>>
              ELSE IF TokenValid
              THEN /\ pc' = [pc EXCEPT ![p] = "awaitImagery"]
                   /\ req' = [req EXCEPT ![p] = [key |-> k, look |-> look, r |-> r]]
                   /\ lastGat' = Returned(token)
                   /\ ev' = Called(Event("fetch", p, k, "cached", token, "none", TRUE,
                                      "pending", NoPayload, 0), r)
              ELSE /\ pc' = [pc EXCEPT ![p] = "awaitToken"]
                   /\ req' = [req EXCEPT ![p] = [key |-> k, look |-> look, r |-> r]]
                   /\ lastGat' = lastGat
                   /\ ev' = Called(Event("fetch", p, k, "sent", Null, "none", FALSE,
                                      "pending", NoPayload, 0), r)
    /\ UNCHANGED <<now, token, tokenExpiry, pvars, reqBody>>

\* Mutant of the lookup: a hit renews the timestamp of its entry.
FetchStart_Touches(p, r) ==
    /\ pc[p] = "idle"
    /\ LET k == CacheKey(r)
           look == Lookup(k)
       IN  IF look = "hit"
           THEN /\ ev' = Called(Event("fetch", p, k, "no", Null, "none", FALSE,
                                      "data", cache[k].data, 0), r)
                /\ cache' = [cache EXCEPT ![k].timestamp = now]
                /\ UNCHANGED <<pc, req, lastGat>>
           ELSE IF TokenValid
           THEN /\ pc' = [pc EXCEPT ![p] = "awaitImagery"]
                /\ req' = [req EXCEPT ![p] = [key |-> k, look |-> look, r |-> r]]
                /\ lastGat' = Returned(token)
                /\ cache' = cache
                /\ ev' = Called(Event("fetch", p, k, "cached", token, "none", TRUE,
                                      "pending", NoPayload, 0), r)
           ELSE /\ pc' = [pc EXCEPT ![p] = "awaitToken"]
                /\ req' = [req EXCEPT ![p] = [key |-> k, look |-> look, r |-> r]]
                /\ lastGat' = lastGat
                /\ cache' = cache
                /\ ev' = Called(Event("fetch", p, k, "sent", Null, "none", FALSE,
                                      "pending", NoPayload, 0), r)
    /\ UNCHANGED <<now, token, tokenExpiry, pvars, reqBody>>

\* getSatelliteData(bbox, options), up to its first suspension.
FetchStart(p, r) ==
    /\ pc[p] = "idle"
    /\ LET k == CacheKey(r)
           look == Lookup(k)
       IN  IF look = "hit"
           THEN /\ ev' = Called(Event("fetch", p, k, "no", Null, "none", FALSE,
                                      "data", cache[k].data, 0), r)
                /\ UNCHANGED <<pc, req, lastGat>>
           ELSE IF TokenValid
           THEN /\ pc' = [pc EXCEPT ![p] = "awaitImagery"]
                /\ req' = [req EXCEPT ![p] = [key |-> k, look |-> look, r |-> r]]
                /\ lastGat' = Returned(token)
                /\ ev' = Called(Event("fetch", p, k, "cached", token, "none", TRUE,
                                      "pending", NoPayload, 0), r)
           ELSE /\ pc' = [pc EXCEPT ![p] = "awaitToken"]
                /\ req' = [req EXCEPT ![p] = [key |-> k, look |-> look, r |-> r]]
                /\ lastGat' = lastGat
                /\ ev' = Called(Event("fetch", p, k, "sent", Null, "none", FALSE,
                                      "pending", NoPayload, 0), r)
    /\ UNCHANGED <<now, token, tokenExpiry, cache, pvars, reqBody>>

\* The token refresh task: await sentinelHub.getAccessToken()
RefreshStart ==
    /\ pc[Cron] = "idle"
    /\ IF TokenValid
       THEN /\ lastGat' = Returned(token)
            /\ ev' = Event("refresh", Cron, Null, "cached", token, "none", FALSE,
                           "done", NoPayload, 0)
            /\ UNCHANGED pc
       ELSE /\ pc' = [pc EXCEPT ![Cron] = "awaitToken"]
            /\ lastGat' = lastGat
            /\ ev' = Event("refresh", Cron, Null, "sent", Null, "none", FALSE,
                           "pending", NoPayload, 0)
    /\ UNCHANGED <<now, token, tokenExpiry, cache, req, pvars, reqBody>>

\* Mutant of the credential write: while another exchange is outstanding
\* the token is overwritten and the expiry is left for the other response.
TokenOk_Torn(p, payload) ==
    /\ pc[p] = "awaitToken"
    /\ token' = payload.access_token
    /\ tokenExpiry' = IF \E q \in Procs \ {p} : pc[q] = "awaitToken"
                      THEN tokenExpiry
                      ELSE NewExpiry(payload.expires_in, now)
    /\ lastGat' = Returned(payload.access_token)
    /\ LET resp == IF WellFormed(payload) THEN "ok" ELSE "malformed"
       IN  IF p = Cron
           THEN /\ pc' = [pc EXCEPT ![p] = "idle"]
                /\ ev' = Event("tokenResp", p, req[p].key, "resolved",
                               payload.access_token, resp, FALSE, "done",
                               NoPayload, 0)
           ELSE /\ pc' = [pc EXCEPT ![p] = "awaitImagery"]
                /\ ev' = Event("tokenResp", p, req[p].key, "resolved",
                               payload.access_token, resp, TRUE, "pending",
                               NoPayload, 0)
    /\ UNCHANGED <<now, cache, req, pvars, reqBody>>

\* The token endpoint answers with a success status: lines 88-95, and for
\* a fetch the imagery request that follows the await.
TokenOk(p, payload) ==
    /\ pc[p] = "awaitToken"
    /\ token' = payload.access_token
    /\ tokenExpiry' = NewExpiry(payload.expires_in, now)
    /\ lastGat' = Returned(payload.access_token)
    /\ LET resp == IF WellFormed(payload) THEN "ok" ELSE "malformed"
       IN  IF p = Cron
           THEN /\ pc' = [pc EXCEPT ![p] = "idle"]
                /\ ev' = Event("tokenResp", p, req[p].key, "resolved",
                               payload.access_token, resp, FALSE, "done",
                               NoPayload, 0)
           ELSE /\ pc' = [pc EXCEPT ![p] = "awaitImagery"]
                /\ ev' = Event("tokenResp", p, req[p].key, "resolved",
                               payload.access_token, resp, TRUE, "pending",
                               NoPayload, 0)
    /\ UNCHANGED <<now, cache, req, pvars, reqBody>>

\* Mutant of the failure path: the fetch goes on to the imagery request
\* although getAccessToken threw.
TokenFail_Proceeds(p) ==
    /\ pc[p] = "awaitToken"
    /\ pc' = [pc EXCEPT ![p] = IF p = Cron THEN "idle" ELSE "awaitImagery"]
    /\ req' = req
    /\ lastGat' = Threw
    /\ ev' = Event("tokenResp", p, req[p].key, "threw", Null, "fail", p # Cron,
                   IF p = Cron THEN "done" ELSE "pending", NoPayload, 0)
    /\ UNCHANGED <<now, token, tokenExpiry, cache, pvars, reqBody>>

\* The exchange fails (non-success status, network error): the catch
\* block throws "Authentication failed with Sentinel Hub"; getSatelliteData
\* rethrows it, the refresh task logs it.
TokenFail(p) ==
    /\ pc[p] = "awaitToken"
    /\ pc' = [pc EXCEPT ![p] = "idle"]
    /\ req' = [req EXCEPT ![p] = Idle]
    /\ lastGat' = Threw
    /\ ev' = Event("tokenResp", p, req[p].key, "threw", Null, "fail", FALSE,
                   IF p = Cron THEN "done" ELSE "error", NoPayload, 0)
    /\ UNCHANGED <<now, token, tokenExpiry, cache, pvars, reqBody>>

\* The imagery endpoint answers with a success status: the body is
\* decoded, the result is assembled, cached and returned.
ImageryOk(p, body) ==
    /\ pc[p] = "awaitImagery"
    /\ LET result == Payload(req[p].r, now, Decoded[body].parts)
           resp == IF Decoded[body].cut THEN "malformed" ELSE "ok"
       IN  /\ cache' = CacheSet(cache, req[p].key, now, result)
           /\ ev' = Event("imageryResp", p, req[p].key, "no", Null, resp,
                          FALSE, "data", result, 0)
    /\ pc' = [pc EXCEPT ![p] = "idle"]
    /\ req' = [req EXCEPT ![p] = Idle]
    /\ UNCHANGED <<now, token, tokenExpiry, lastGat, pvars, reqBody>>

\* Mutant of the failure path: the failed fetch drops its key's entry.
ImageryFail_Evicts(p) ==
    /\ pc[p] = "awaitImagery"
    /\ pc' = [pc EXCEPT ![p] = "idle"]
    /\ req' = [req EXCEPT ![p] = Idle]
    /\ cache' = [k \in (DOMAIN cache) \ {req[p].key} |-> cache[k]]
    /\ ev' = Event("imageryResp", p, req[p].key, "no", Null, "fail", FALSE,
                   "error", NoPayload, 0)
    /\ UNCHANGED <<now, token, tokenExpiry, lastGat, pvars, reqBody>>

\* Mutant of the failure path: the failed imagery request is sent again.
ImageryFail_Retries(p) ==
    /\ pc[p] = "awaitImagery"
    /\ ev' = Event("imageryResp", p, req[p].key, "no", Null, "fail", TRUE,
                   "pending", NoPayload, 0)
    /\ UNCHANGED <<now, token, tokenExpiry, cache, pc, req, lastGat, pvars, reqBody>>

\* The imagery call fails: catch (error) { ...; throw error; }
ImageryFail(p) ==
    /\ pc[p] = "awaitImagery"
    /\ pc' = [pc EXCEPT ![p] = "idle"]
    /\ req' = [req EXCEPT ![p] = Idle]
    /\ ev' = Event("imageryResp", p, req[p].key, "no", Null, "fail", FALSE,
                   "error", NoPayload, 0)
    /\ UNCHANGED <<now, token, tokenExpiry, cache, lastGat, pvars, reqBody>>

\* The cache sweep task.
Sweep ==
    /\ LET gone == {k \in DOMAIN cache : SweepRemoves(k)}
       IN  /\ cache' = [k \in (DOMAIN cache) \ gone |-> cache[k]]
           /\ ev' = Event("sweep", Cron, Null, "no", Null, "none", FALSE, "done",
                          NoPayload, Cardinality(gone))
    /\ UNCHANGED <<now, token, tokenExpiry, pc, req, lastGat, pvars, reqBody>>

\* Mutant of the clear: the live entries stay.
ClearCache_KeepsLive ==
    /\ cache' = [k \in {x \in DOMAIN cache : CacheLive(x)} |-> cache[k]]
    /\ ev' = Event("clear", Cron, Null, "no", Null, "none", FALSE, "done",
                   NoPayload, Cardinality(DOMAIN cache'))
    /\ UNCHANGED <<now, token, tokenExpiry, pc, req, lastGat, pvars, reqBody>>

\* POST /api/cache/clear: cache.clear(), and the size reported.
ClearCache ==
    /\ cache' = EmptyMap
    /\ ev' = Event("clear", Cron, Null, "no", Null, "none", FALSE, "done",
                   NoPayload, Cardinality(DOMAIN cache'))
    /\ UNCHANGED <<now, token, tokenExpiry, pc, req, lastGat, pvars, reqBody>>

\* Mutant of the stats report: the newest entry's timestamp.
OldestEntry_Newest(c) ==
    IF DOMAIN c # {}
    THEN Num(CHOOSE t \in {c[k].timestamp : k \in DOMAIN c} :
                \A k \in DOMAIN c : t >= c[k].timestamp)
    ELSE NullNum

\* cache.size > 0 ? Math.min(...values.map((v) => v.timestamp)) : null
OldestEntry(c) ==
    IF DOMAIN c # {}
    THEN Num(CHOOSE t \in {c[k].timestamp : k \in DOMAIN c} :
                \A k \in DOMAIN c : t <= c[k].timestamp)
    ELSE NullNum

\* GET /api/cache/stats
Stats ==
    /\ ev' = [Event("stats", Cron, Null, "no", Null, "none", FALSE, "done",
                    NoPayload, Cardinality(DOMAIN cache))
                EXCEPT !.keys = DOMAIN cache, !.oldest = OldestEntry(cache)]
    /\ UNCHANGED <<now, token, tokenExpiry, cache, pc, req, lastGat, pvars, reqBody>>

\* The clock advances, half an hour at a time: an entry or a token of one
\* hour is met before, at and after its limit.
Tick ==
    /\ now < MaxTicks * TickMs
    /\ now' = now + TickMs
    /\ ev' = NoEvent
    /\ UNCHANGED <<token, tokenExpiry, cache, pc, req, lastGat, pvars, reqBody>>

(***************************************************************************)
(* The routes that fetch by bbox.                                          *)
(***************************************************************************)
\* req.body.bbox: omitted, a non-empty string, or an array of JSON values.
NoBbox == [t |-> "undefined", items |-> <<>>]
StringBbox == [t |-> "string", items |-> <<>>]
ArrayBbox(items) == [t |-> "array", items |-> items]

\* !bbox
BboxFalsy(bbox) == bbox.t = "undefined"

\* if (!bbox || !Array.isArray(bbox) || bbox.length !== 4)
InvalidBbox(bbox) ==
    BboxFalsy(bbox) \/ bbox.t # "array" \/ Len(bbox.items) # 4

\* The 400 / 500 answer of a route that did not get to the cache lookup.
Answer(route, p, out) ==
    Event(route, p, Null, "no", Null, "none", FALSE, out, NoPayload, 0)

\* POST /api/satellite-data, up to the first suspension of getSatelliteData.
SatelliteData(p) ==
    /\ reqBody.route = "satellite-data"
    /\ pc[p] = "idle"
    /\ IF InvalidBbox(reqBody.bbox)
       THEN /\ ev' = Answer("satellite-data", p, "rejected")
            /\ UNCHANGED <<now, token, tokenExpiry, cache, pc, req, lastGat,
                           pvars, reqBody>>
       ELSE FetchStart(p, [bbox |-> reqBody.bbox.items,
                           width |-> Default(reqBody.options.width),
                           height |-> Default(reqBody.options.height),
                           maxCloudCoverage |->
                               DefaultCloudOf(reqBody.options.maxCloudCoverage)])

\* POST /api/flood-analysis, up to the first suspension of
\* getSatelliteData(bbox); bbox.join of a string is a TypeError.
FloodAnalysis(p) ==
    /\ reqBody.route = "flood-analysis"
    /\ pc[p] = "idle"
    /\ IF BboxFalsy(reqBody.bbox) \/ reqBody.bbox.t # "array"
       THEN /\ ev' = Answer("flood-analysis", p,
                            IF BboxFalsy(reqBody.bbox) THEN "rejected" ELSE "error")
            /\ UNCHANGED <<now, token, tokenExpiry, cache, pc, req, lastGat,
                           pvars, reqBody>>
       ELSE FetchStart(p, [bbox |-> reqBody.bbox.items,
                           width |-> Default(JUndefined),
                           height |-> Default(JUndefined),
                           maxCloudCoverage |-> DefaultCloudOf(JUndefined)])

\* The request bodies under test.
ApiBboxes ==
    {NoBbox, StringBbox}
    \cup {ArrayBbox(items) : items \in
            { <<JNum(1), JNum(2), JNum(3)>>,
              <<JNum(1), JNum(2), JNum(3), JNum(4)>>,
              <<JNum(3), JNum(2), JNum(1), JNum(4)>>,
              <<JStr("1,2"), JNum(3), JNum(4), JNum(5)>>,
              <<JNum(1), JStr("2,3"), JNum(4), JNum(5)>>,
              <<JNum(1), JNum(2), JNum(3), JNum(4), JNum(5)>> }}
ApiOptions ==
    [width : {JUndefined, JNum(512), JNum(256), JNum(1), JStr("1-2")},
     height : {JUndefined, JNum(256), JNum(3), JStr("2-3")},
     maxCloudCoverage : {JUndefined}]
NoOptions ==
    [width |-> JUndefined, height |-> JUndefined,
     maxCloudCoverage |-> JUndefined]
ApiBodies ==
    [route : {"satellite-data"}, bbox : ApiBboxes, options : ApiOptions]
    \cup [route : {"flood-analysis"}, bbox : ApiBboxes, options : {NoOptions}]
NoBody == [route |-> "none", bbox |-> NoBbox, options |-> NoOptions]

(***************************************************************************)
(* Specifications.                                                         *)
(***************************************************************************)
ParseIdle ==
    /\ inBoundary = <<"b">>
    /\ inParts = <<>>
    /\ inTail = "none"
    /\ buffer = <<>>
    /\ end = 0
    /\ pos = -1
    /\ parts = EmptyMap
    /\ ppc = "returned"

ServiceInit ==
    /\ now = 0
    /\ token = Null
    /\ tokenExpiry = NullNum
    /\ cache = EmptyMap
    /\ pc = [p \in Procs |-> "idle"]
    /\ req = [p \in Procs |-> Idle]
    /\ lastGat = NoCall
    /\ ev = NoEvent

Init == ParseIdle /\ ServiceInit /\ reqBody = NoBody

Next ==
    \/ \E p \in Fetchers, r \in Requests : FetchStart(p, r)
    \/ RefreshStart
    \/ \E p \in Procs, payload \in TokenBearing : TokenOk(p, payload)
    \/ \E p \in Procs : TokenFail(p)
    \/ \E p \in Fetchers, body \in CompleteBodies : ImageryOk(p, body)
    \/ \E p \in Fetchers : ImageryFail(p)
    \/ Sweep
    \/ ClearCache
    \/ Tick

Spec == Init /\ [][Next]_vars

\* The decoder applied to every synthetic buffer within the bounds.
InitParse ==
    /\ inBoundary \in Boundaries
    /\ inParts \in PartSeqs
    /\ inTail \in Tails
    /\ buffer = Encode(inParts, inTail, inBoundary)
    /\ end = ParseEnd(buffer, inBoundary)
    /\ pos = ParseStart(buffer, inBoundary)
    /\ parts = EmptyMap
    /\ ppc = "loop"
    /\ ServiceInit
    /\ reqBody = NoBody

NextParse == ParseStep \/ ParseBreak \/ ParseReturn

SpecParse == InitParse /\ [][NextParse]_vars

\* The cache and its administration: the service with a token endpoint
\* that answers well-formed, unexpired credentials, and the stats route.
LivePayloads ==
    {payload \in TokenPayloads :
        WellFormed(payload) /\ payload.expires_in.v > 0}

NextAdmin ==
    \/ \E p \in Fetchers, r \in Requests : FetchStart(p, r)
    \/ RefreshStart
    \/ \E p \in Procs, payload \in LivePayloads : TokenOk(p, payload)
    \/ \E p \in Procs : TokenFail(p)
    \/ \E p \in Fetchers, body \in CompleteBodies : ImageryOk(p, body)
    \/ \E p \in Fetchers : ImageryFail(p)
    \/ Sweep
    \/ ClearCache
    \/ Stats
    \/ Tick

SpecAdmin == Init /\ [][NextAdmin]_vars

\* Calls that differ in maxCloudCoverage only, with a token endpoint that
\* answers well-formed, unexpired credentials.
NextCloud ==
    \/ \E p \in Fetchers, r \in CloudRequests : FetchStart(p, r)
    \/ \E p \in Fetchers, payload \in LivePayloads : TokenOk(p, payload)
    \/ \E p \in Fetchers : TokenFail(p)
    \/ \E p \in Fetchers, body \in CompleteBodies : ImageryOk(p, body)
    \/ \E p \in Fetchers : ImageryFail(p)
    \/ Tick

SpecCloud == Init /\ [][NextCloud]_vars

\* The clock advances; neither endpoint is bound to answer, and no timer
\* of the program ends a request that is not answered.
SpecLive == Spec /\ WF_vars(Tick)

\* One request body, handled by its route over and over.
InitApi == ParseIdle /\ ServiceInit /\ reqBody \in ApiBodies

NextApi ==
    \/ \E p \in Fetchers : SatelliteData(p)
    \/ \E p \in Fetchers : FloodAnalysis(p)
    \/ \E p \in Fetchers, payload \in TokenPayloads : TokenOk(p, payload)
    \/ \E p \in Fetchers : TokenFail(p)
    \/ \E p \in Fetchers, body \in ImageryBodies : ImageryOk(p, body)
    \/ \E p \in Fetchers : ImageryFail(p)

SpecApi == InitApi /\ [][NextApi]_vars

(***************************************************************************)
(* Claims about the decoder, under SpecParse.                              *)
(***************************************************************************)
\* The input of the round trip: every part carries a Content-ID, the
\* Content-IDs are distinct, and the buffer is not cut.
NamedParts ==
    /\ \A i \in 1..Len(inParts) : inParts[i].hasId
    /\ \A i, j \in 1..Len(inParts) : inParts[i].id = inParts[j].id => i = j
    /\ inTail \in {"closing", "none"}

\* Content-ID -> body, as written into the buffer.
Written(ps) ==
    [id \in {ps[i].id : i \in 1..Len(ps)} |->
        LET i == CHOOSE j \in 1..Len(ps) : ps[j].id = id
        IN  Body(id, ps[i].len)]

\* C1: decoding a buffer built from N parts with distinct Content-IDs
\* returns exactly those Content-IDs, each mapped to its body unchanged.
C1_RoundTrip ==
    (ppc = "returned" /\ NamedParts) => parts = Written(inParts)

\* C2: the mapping returned for a sequence of parts is the same with the
\* closing marker as without it.
C2_ClosingMarkerIrrelevant ==
    (ppc = "returned" /\ NamedParts) =>
        parts = parseMultipartResponse(
                    Encode(inParts, IF inTail = "closing" THEN "none" ELSE "closing",
                           inBoundary),
                    inBoundary)

\* A boundary marker before end that no CRLF CRLF follows.
MarkerWithoutDelimiter ==
    \E i \in 0..(end - 1) :
        /\ OccursAt(buffer, boundaryBuffer(inBoundary), i)
        /\ IndexOf(buffer, <<CR, LF, CR, LF>>, i) = -1

\* C3: on a boundary marker that no header/body delimiter follows, the
\* decoder fails instead of returning a mapping.
C3_FailsWithoutDelimiter ==
    MarkerWithoutDelimiter => ppc # "returned"

\* The parts of ps that carry a Content-ID.
Named(ps) == SelectSeq(ps, LAMBDA p : p.hasId)

\* C21: of a buffer with parts that lack a Content-ID, the mapping
\* returned has exactly the Content-IDs of the other parts, each with its
\* own body; it is empty when no part has a Content-ID.
C21_UnnamedSkipped ==
    (/\ ppc = "returned"
     /\ inTail \in {"closing", "none"}
     /\ \E i \in 1..Len(inParts) : ~inParts[i].hasId
     /\ \A i, j \in 1..Len(Named(inParts)) :
           Named(inParts)[i].id = Named(inParts)[j].id => i = j)
    => parts = Written(Named(inParts))

\* C27: an iteration that goes round the loop starts on a marker and
\* leaves the scan position at -1 or on a marker further on, so that the
\* iterations are no more than the markers of the buffer.
C27_ScanAdvances ==
    (ppc = "loop" /\ LoopCond(pos, end))
    => /\ OccursAt(buffer, boundaryBuffer(inBoundary), pos)
       /\ HeadersEnd # -1
          => LET np == ParseIter(buffer, inBoundary, end,
                                 [pos |-> pos, parts |-> parts, run |-> TRUE]).pos
             IN  \/ np = -1
                 \/ (np > pos /\ OccursAt(buffer, boundaryBuffer(inBoundary), np))

\* The loop has gone round more than once and returned.
C27_Witness ==
    /\ ppc = "returned"
    /\ pos = -1
    /\ Len(inParts) > 1
    /\ Cardinality(DOMAIN parts) > 1

(***************************************************************************)
(* Claims about the token manager and the orchestrator, under Spec.        *)
(***************************************************************************)
\* A getAccessToken call is made in this step (by a fetch that missed the
\* cache or by the refresh task).
CallMade == ev'.op \in {"fetch", "refresh"} /\ ev'.gat \in {"cached", "sent"}

\* C4: when the getAccessToken call completed last got a token and the
\* clock is below the recorded expiry, the next call sends no exchange
\* request and returns that same token.
C4_TokenReuse ==
    [][(CallMade /\ lastGat.out = "ok" /\ Truthy(lastGat.tok)
            /\ ExpiryAfter(tokenExpiry, now))
        => (ev'.gat = "cached" /\ ev'.tok = lastGat.tok
            /\ pc'[ev'.p] # "awaitToken")]_vars

\* A call made after the clock advanced returned the cached token.
C4_Witness ==
    /\ ev.op \in {"fetch", "refresh"}
    /\ ev.gat = "cached"
    /\ ev.tok = token
    /\ lastGat = Returned(token)
    /\ ExpiryAfter(tokenExpiry, now)
    /\ now > 0

\* C5: a call made with a credential cached and now >= tokenExpiry sends a
\* new exchange request and returns nothing from the cache; it ends only
\* with the response, and a well-formed response overwrites both the
\* cached token and the cached expiry and is what the call returns.
C5_TokenExpiry ==
    [][/\ (CallMade /\ Truthy(token) /\ tokenExpiry.kind = "number"
              /\ now >= tokenExpiry.v)
          => (ev'.gat = "sent" /\ pc'[ev'.p] = "awaitToken")
       /\ \A p \in Procs :
            (pc[p] = "awaitToken" /\ pc'[p] # "awaitToken")
            => (ev'.op = "tokenResp" /\ ev'.p = p
                /\ ev'.gat \in {"resolved", "threw"})
       /\ (ev'.op = "tokenResp" /\ ev'.resp = "ok")
          => \E payload \in TokenPayloads :
                /\ WellFormed(payload)
                /\ token' = payload.access_token
                /\ tokenExpiry' = Num(now + payload.expires_in.v * MsPerSecond)
                /\ ev'.gat = "resolved"
                /\ ev'.tok = payload.access_token]_vars

\* An exchange is in flight that was sent exactly at the cached expiry.
C5_Witness ==
    /\ ev.gat = "sent"
    /\ Truthy(token)
    /\ tokenExpiry = Num(now)
    /\ now > 0

\* C6: every token getAccessToken returns satisfies now < expiry when it
\* is returned (and put into the imagery call's Authorization header).
\* Stated for the tokens of the cache and of well-formed responses.
C6_ReturnedTokenUnexpired ==
    (ev.gat \in {"cached", "resolved"} /\ ev.resp # "malformed")
        => ExpiryAfter(tokenExpiry, now)

\* C7: at most one credential exchange request is outstanding.
C7_SingleOutstandingExchange ==
    Cardinality({p \in Procs : pc[p] = "awaitToken"}) <= 1

\* C8: getAccessToken throws when the exchange fails and when it answers
\* with a malformed payload; it returns no value as a token then.
C8_MalformedPayloadFails ==
    (ev.op = "tokenResp" /\ ev.resp \in {"fail", "malformed"})
        => (ev.gat = "threw" /\ ev.tok = Null)

\* A fetch is made in this step for cacheKey k.
FetchMade(k) == ev'.op = "fetch" /\ ev'.key = k

\* C9 as stated: a live entry is returned without any request, and a call
\* that found the entry at or above CACHE_DURATION sends an imagery request
\* (it does not end without having sent one). Stated for calls made while
\* the cached credential is a token with a numeric expiry.
C9_CacheIdempotence ==
    [][/\ \A k \in DOMAIN cache :
            (FetchMade(k) /\ now - cache[k].timestamp < CACHE_DURATION)
            => (ev'.out = "data" /\ ev'.val = cache[k].data
                /\ ~ev'.img /\ ev'.gat = "no")
       /\ \A p \in Fetchers :
            (req[p].look = "stale" /\ pc[p] = "awaitToken"
                /\ Truthy(token) /\ tokenExpiry.kind = "number")
            => pc'[p] \in {"awaitToken", "awaitImagery"}]_vars

\* C9 amended: a live entry is returned without any request; the payload a
\* successful fetch returns is the one it stores, with the time of storing;
\* a call that finds the entry at or above CACHE_DURATION does not return
\* it and calls getAccessToken, sending the imagery request once it has a
\* token and none when the exchange fails.
C9_CacheIdempotenceAmended ==
    [][/\ \A k \in DOMAIN cache :
            (FetchMade(k) /\ now - cache[k].timestamp < CACHE_DURATION)
            => (ev'.out = "data" /\ ev'.val = cache[k].data
                /\ ~ev'.img /\ ev'.gat = "no")
       /\ (ev'.op = "imageryResp" /\ ev'.resp = "ok")
            => (/\ ev'.out = "data"
                /\ ev'.key \in DOMAIN cache'
                /\ cache'[ev'.key] = [timestamp |-> now, data |-> ev'.val])
       /\ \A k \in DOMAIN cache :
            (FetchMade(k) /\ now - cache[k].timestamp >= CACHE_DURATION)
            => (/\ ev'.out = "pending"
                /\ ev'.gat \in {"cached", "sent"}
                /\ ev'.img = (ev'.gat = "cached")
                /\ req'[ev'.p].look = "stale")
       /\ \A p \in Fetchers :
            (req[p].look = "stale" /\ pc[p] = "awaitToken"
                /\ pc'[p] # "awaitToken")
            => \/ (pc'[p] = "awaitImagery" /\ ev'.img /\ ev'.gat = "resolved")
               \/ (pc'[p] = "idle" /\ ~ev'.img /\ ev'.gat = "threw"
                   /\ ev'.out = "error")]_vars

\* A fetch was answered from an entry that an earlier fetch had stored,
\* of an age above 0 and below CACHE_DURATION.
C9_Witness ==
    /\ ev.op = "fetch"
    /\ ev.out = "data"
    /\ ev.key \in DOMAIN cache
    /\ ev.val = cache[ev.key].data
    /\ now - cache[ev.key].timestamp > 0
    /\ now - cache[ev.key].timestamp < CACHE_DURATION

\* C10: a fetch that fails on the credential exchange or on the imagery
\* call rethrows the error, and no step of it changes the cache.
C10_NothingPartialCached ==
    [][/\ (ev'.resp = "fail" /\ ev'.p \in Fetchers)
          => (ev'.out = "error" /\ pc'[ev'.p] = "idle" /\ cache' = cache)
       /\ (ev'.op \in {"fetch", "tokenResp"}) => cache' = cache]_vars

\* A fetch failed on the imagery call while a stale entry for its key is
\* in the cache.
C10_Witness ==
    /\ ev.op = "imageryResp"
    /\ ev.out = "error"
    /\ ev.key \in DOMAIN cache
    /\ now - cache[ev.key].timestamp >= CACHE_DURATION

\* C14: the imagery request of a fetch is sent in the step in which
\* getAccessToken returned to that fetch, with the value it returned, and
\* at no other step; a fetch whose getAccessToken threw ends in error
\* without an imagery request.
C14_TokenBeforeImagery ==
    [][/\ ev'.img
          => (/\ ev'.p \in Fetchers
              /\ ev'.gat \in {"cached", "resolved"}
              /\ lastGat' = Returned(ev'.tok)
              /\ pc[ev'.p] # "awaitImagery"
              /\ pc'[ev'.p] = "awaitImagery")
       /\ \A p \in Fetchers :
            (pc[p] # "awaitImagery" /\ pc'[p] = "awaitImagery")
            => (ev'.img /\ ev'.p = p /\ ev'.gat \in {"cached", "resolved"})
       /\ \A p \in Fetchers :
            (ev'.gat = "threw" /\ ev'.p = p)
            => (~ev'.img /\ ev'.out = "error" /\ pc'[p] = "idle")]_vars

\* A fetch that missed the cache has sent its imagery request with the
\* token of the exchange it waited for.
C14_Witness ==
    /\ ev.op = "tokenResp"
    /\ ev.gat = "resolved"
    /\ ev.img
    /\ ev.p \in Fetchers
    /\ pc[ev.p] = "awaitImagery"
    /\ Truthy(ev.tok)
    /\ ev.tok = token

\* C15: a call that finds an entry of an age not below CACHE_DURATION goes
\* on to the remote fetch and leaves the cache as it is; such an entry
\* goes or changes only by the sweep, the clear, or a successful fetch of
\* its key.
C15_StaleKeptByGet ==
    [][\A k \in DOMAIN cache :
          (now - cache[k].timestamp >= CACHE_DURATION)
          => /\ FetchMade(k)
                => (/\ ev'.out = "pending"
                    /\ ev'.gat \in {"cached", "sent"}
                    /\ req'[ev'.p].look = "stale"
                    /\ cache' = cache)
             /\ (k \notin DOMAIN cache' \/ cache'[k] # cache[k])
                => \/ ev'.op \in {"sweep", "clear"}
                   \/ (ev'.op = "imageryResp" /\ ev'.out = "data"
                       /\ ev'.key = k)]_vars

\* A call has found its entry aged exactly CACHE_DURATION and gone on to
\* the remote fetch; the entry is still there.
C15_Witness ==
    /\ ev.op = "fetch"
    /\ ev.out = "pending"
    /\ ev.key \in DOMAIN cache
    /\ now - cache[ev.key].timestamp = CACHE_DURATION

\* C16: a run of the sweep removes exactly the entries whose age exceeds
\* CACHE_DURATION, leaves the others as they are, and reports the number
\* of entries it removed.
C16_SweepExact ==
    [][ev'.op = "sweep"
        => LET old == {k \in DOMAIN cache :
                          now - cache[k].timestamp > CACHE_DURATION}
           IN  /\ DOMAIN cache' = (DOMAIN cache) \ old
               /\ \A k \in DOMAIN cache' : cache'[k] = cache[k]
               /\ ev'.n = Cardinality(old)]_vars

\* A run of the sweep has removed more than one entry.
C16_Witness ==
    /\ ev.op = "sweep"
    /\ ev.n > 1
    /\ cache = EmptyMap

\* C17 as stated: the clear leaves the cache empty and reports size 0, and
\* a call made on the empty cache sends an imagery request (it does not
\* end without having sent one). Stated for calls made while the cached
\* credential is a token with a numeric expiry.
C17_ClearThenFetch ==
    [][/\ ev'.op = "clear" => (cache' = EmptyMap /\ ev'.n = 0)
       /\ (cache = EmptyMap /\ ev'.op = "fetch") => ev'.out = "pending"
       /\ \A p \in Fetchers :
            (/\ ev.op = "fetch" /\ ev.p = p /\ cache = EmptyMap
             /\ pc[p] = "awaitToken"
             /\ Truthy(token) /\ tokenExpiry.kind = "number")
            => pc'[p] \in {"awaitToken", "awaitImagery"}]_vars

\* C17 amended: the clear leaves the cache empty and reports size 0; a
\* call made on the empty cache is not answered from the cache: it calls
\* getAccessToken, sending the imagery request once it has a token and
\* none when the exchange fails.
C17_ClearThenFetchAmended ==
    [][/\ ev'.op = "clear" => (cache' = EmptyMap /\ ev'.n = 0)
       /\ (cache = EmptyMap /\ ev'.op = "fetch")
            => (/\ ev'.out = "pending"
                /\ ev'.gat \in {"cached", "sent"}
                /\ ev'.img = (ev'.gat = "cached")
                /\ req'[ev'.p].look = "absent")
       /\ \A p \in Fetchers :
            (req[p].look = "absent" /\ pc[p] = "awaitToken"
                /\ pc'[p] # "awaitToken")
            => \/ (pc'[p] = "awaitImagery" /\ ev'.img /\ ev'.gat = "resolved")
               \/ (pc'[p] = "idle" /\ ~ev'.img /\ ev'.gat = "threw"
                   /\ ev'.out = "error")]_vars

\* The clear has run while a fetch that had found an entry for its key
\* is in flight, and the cache is empty.
C17_Witness ==
    /\ ev.op = "clear"
    /\ ev.n = 0
    /\ cache = EmptyMap
    /\ now > 0
    /\ \E p \in Fetchers : req[p].look = "stale"

\* C20: every firing of the renewal timer sends a credential exchange,
\* also when the cached credential has not expired.
C20_TimerAlwaysExchanges ==
    ev.op = "refresh" => (ev.gat = "sent" /\ pc[Cron] = "awaitToken")

\* C23: the cached token and the cached expiry are written by one step,
\* the handling of one exchange response, whatever else is outstanding:
\* the token is that response's (the one getAccessToken returns) and the
\* expiry is the time of that step plus the response's expires_in seconds
\* (not a number when the response has none). No other step changes either
\* of them, so the credential held is that of the response handled last.
C23_CredentialOfOneResponse ==
    [][IF ev'.op = "tokenResp" /\ ev'.gat = "resolved"
       THEN /\ token' = ev'.tok
            /\ lastGat' = Returned(token')
            /\ \E payload \in TokenPayloads :
                  /\ payload.access_token = token'
                  /\ IF payload.expires_in.kind = "number"
                     THEN tokenExpiry' =
                              Num(now + payload.expires_in.v * MsPerSecond)
                     ELSE tokenExpiry'.kind \notin {"number", "null"}
                  /\ (ev'.resp = "ok") = WellFormed(payload)
       ELSE token' = token /\ tokenExpiry' = tokenExpiry]_vars

\* A response has just been handled while another exchange, sent before
\* that response came, is still outstanding, and the credential held is a
\* well-formed one received after the start.
C23_Witness ==
    /\ ev.op = "tokenResp" /\ ev.gat = "resolved" /\ ev.resp = "ok"
    /\ \E q \in Procs \ {ev.p} : pc[q] = "awaitToken"
    /\ token = ev.tok
    /\ tokenExpiry.kind = "number" /\ tokenExpiry.v > now /\ now > 0

\* C25: no retry. A process sends an exchange request only as the first
\* step of its call, and an imagery request only when its call has sent
\* none yet; a failed exchange and a failed imagery request end the call
\* with nothing sent, and a cache hit sends neither request.
C25_NoRetry ==
    [][LET p == ev'.p
       IN  /\ ev'.gat = "sent"
               => pc[p] = "idle" /\ pc'[p] = "awaitToken" /\ ~ev'.img
           /\ ev'.img
               => pc[p] # "awaitImagery" /\ pc'[p] = "awaitImagery"
           /\ pc[p] = "awaitToken" /\ pc'[p] # "awaitToken"
               => ev'.op = "tokenResp" /\ pc'[p] \in {"idle", "awaitImagery"}
           /\ pc[p] = "awaitImagery" /\ pc'[p] # "awaitImagery"
               => ev'.op = "imageryResp" /\ pc'[p] = "idle"
           /\ ev'.op \in {"tokenResp", "imageryResp"} /\ ev'.resp = "fail"
               => pc'[p] = "idle" /\ ~ev'.img /\ ev'.gat # "sent"
           /\ ev'.op = "fetch" /\ ev'.out = "data"
               => pc'[p] = "idle" /\ ~ev'.img /\ ev'.gat = "no"
           /\ \A q \in Procs \ {p} : pc'[q] = pc[q]]_vars

\* An imagery request has just failed and its call has ended.
C25_Witness ==
    /\ ev.op = "imageryResp" /\ ev.resp = "fail" /\ ev.out = "error"
    /\ ev.p \in Fetchers /\ pc[ev.p] = "idle"
    /\ ~ev.img

\* C26: a failed exchange leaves the cached token and expiry as they
\* were; the failure of the refresh task's exchange changes no fetch in
\* flight; and the getAccessToken call that comes next after a failed
\* exchange sends an exchange request.
C26_FailedExchange ==
    [][/\ ev'.op = "tokenResp" /\ ev'.resp = "fail"
           => /\ token' = token /\ tokenExpiry' = tokenExpiry
              /\ ev'.p = Cron
                    => \A q \in Fetchers : pc'[q] = pc[q] /\ req'[q] = req[q]
       /\ (/\ ev.op = "tokenResp" /\ ev.resp = "fail"
           /\ ev'.op \in {"fetch", "refresh"} /\ ev'.gat # "no")
          => ev'.gat = "sent"]_vars

(***************************************************************************)
(* Claims about the cache and its administration, under SpecAdmin.         *)
(***************************************************************************)
\* C24: the life of a cache entry. A step adds or changes an entry only
\* when it is the successful end of a getSatelliteData call, and then the
\* entry is the one of the call's key, with the time of that step and the
\* payload returned; a step removes an entry only when it is the sweep or
\* the clear. A cache hit, a failed fetch, a token operation and a stats
\* call leave the cache as it is.
C24_EntryLifecycle ==
    [][/\ \A k \in DOMAIN cache' :
             k \notin DOMAIN cache \/ cache'[k] # cache[k]
             => /\ ev'.op = "imageryResp" /\ ev'.out = "data"
                /\ k = ev'.key
                /\ cache'[k] = [timestamp |-> now, data |-> ev'.val]
       /\ \A k \in DOMAIN cache :
             k \notin DOMAIN cache' => ev'.op \in {"sweep", "clear"}
       /\ (\/ ev'.op \in {"fetch", "refresh", "tokenResp", "stats"}
           \/ ev'.op = "imageryResp" /\ ev'.out = "error")
          => cache' = cache]_vars

\* A fetch has just been answered from an entry stored earlier, which is
\* still as it was stored.
C24_Witness ==
    /\ ev.op = "fetch" /\ ev.out = "data"
    /\ ev.key \in DOMAIN cache
    /\ cache[ev.key].timestamp < now
    /\ cache[ev.key].data = ev.val
    /\ ev.val.timestamp = cache[ev.key].timestamp

\* C22 as stated: the stats report has the number of entries, the set of
\* the keys, and the age of the oldest entry (now minus the smallest
\* timestamp), or no oldest value when the cache is empty.
C22_StatsReport ==
    ev.op = "stats"
    => /\ ev.n = Cardinality(DOMAIN cache)
       /\ ev.keys = DOMAIN cache
       /\ IF cache = EmptyMap THEN ev.oldest = NullNum
          ELSE /\ ev.oldest.kind = "number"
               /\ \E k \in DOMAIN cache :
                     ev.oldest.v = now - cache[k].timestamp
               /\ \A k \in DOMAIN cache :
                     ev.oldest.v >= now - cache[k].timestamp

\* C22 amended: the stats report has the number of entries, the set of
\* the keys, and the smallest timestamp over the entries (the time the
\* oldest entry was stored), or null when the cache is empty.
C22_StatsReportAmended ==
    ev.op = "stats"
    => /\ ev.n = Cardinality(DOMAIN cache)
       /\ ev.keys = DOMAIN cache
       /\ IF cache = EmptyMap THEN ev.oldest = NullNum
          ELSE /\ ev.oldest.kind = "number"
               /\ \E k \in DOMAIN cache : ev.oldest.v = cache[k].timestamp
               /\ \A k \in DOMAIN cache : ev.oldest.v <= cache[k].timestamp

\* The stats route has reported on two entries stored at different times,
\* later than the younger one was stored.
C22_Witness ==
    /\ ev.op = "stats"
    /\ ev.n > 1
    /\ \E j, k \in DOMAIN cache :
          /\ cache[j].timestamp < cache[k].timestamp
          /\ cache[k].timestamp < now
          /\ ev.oldest = Num(cache[j].timestamp)

(***************************************************************************)
(* Claim about the cloud coverage option, under SpecCloud.                 *)
(***************************************************************************)
\* C28: maxCloudCoverage takes no part in the lookup. A call made while
\* the entry stored for the same bbox, width and height is younger than
\* CACHE_DURATION returns that entry's payload and sends no request,
\* whatever its own maxCloudCoverage; and the payload a call stores has
\* the cloud coverage bound of that call.
SameArea(r, q) ==
    r.bbox = q.bbox /\ r.width = q.width /\ r.height = q.height
C28_CloudNotInKey ==
    [][/\ ev'.op = "fetch"
             => \A q \in CloudRequests :
                  (/\ SameArea(ev'.r, q)
                   /\ CacheKey(q) \in DOMAIN cache
                   /\ now - cache[CacheKey(q)].timestamp < CACHE_DURATION)
                  => /\ ev'.out = "data" /\ ~ev'.img /\ ev'.gat = "no"
                     /\ ev'.val = cache[CacheKey(q)].data
                     /\ pc' = pc /\ cache' = cache
       /\ ev'.op = "imageryResp" /\ ev'.out = "data"
             => /\ ev'.val.cloudCoverage = req[ev'.p].r.maxCloudCoverage
                /\ cache'[ev'.key].data = ev'.val]_vars

\* A call has just been answered from the cache with a payload whose
\* cloud coverage bound is not the one the call asked for.
C28_Witness ==
    /\ ev.op = "fetch" /\ ev.out = "data" /\ ~ev.img
    /\ ev.r.maxCloudCoverage # ev.val.cloudCoverage
    /\ ev.val = cache[ev.key].data
    /\ now - cache[ev.key].timestamp < CACHE_DURATION

(***************************************************************************)
(* Claim about termination, under SpecLive.                                *)
(***************************************************************************)
\* C19: every getSatelliteData call that suspended on an outbound call
\* ends: it returns a payload or fails.
C19_NeverPendingForever ==
    \A p \in Fetchers : (pc[p] # "idle") ~> (pc[p] = "idle")

(***************************************************************************)
(* Claims about the routes and one fetch end to end, under SpecApi.        *)
(***************************************************************************)
\* C11: when the imagery endpoint's body has a boundary marker that no
\* header/body delimiter follows, the fetch fails: it returns no payload,
\* and no payload short of a band is in the cache. Stated for fetches that
\* sent the request with a token of a well-formed credential.
C11_MalformedBodyFails ==
    (/\ ev.op = "imageryResp"
     /\ ev.resp = "malformed"
     /\ Truthy(token)
     /\ tokenExpiry.kind = "number")
    => (/\ ev.out = "error"
        /\ ev.val = NoPayload
        /\ \A k \in DOMAIN cache :
              \A id \in Ids : cache[k].data.bands[id].present)

\* No request has been sent to either endpoint and no cache lookup made:
\* the request under test got no further than a validation error.
RejectedUnsent ==
    /\ ev.out \in {"none", "rejected"}
    /\ \A p \in Fetchers : pc[p] = "idle"
    /\ lastGat = NoCall

\* C12: a request whose bbox is absent, not an array, or an array of
\* another length than 4 is rejected with a validation error by either
\* route, and no request is sent to the token or the imagery endpoint.
C12_ShapeRejected ==
    (reqBody.bbox.t # "array" \/ Len(reqBody.bbox.items) # 4) => RejectedUnsent

\* The BoundingBox invariants: numbers, minLon < maxLon, minLat < maxLat.
BoundingBox(items) ==
    /\ \A i \in 1..4 : items[i].t = "number"
    /\ items[1].n < items[3].n
    /\ items[2].n < items[4].n

\* C13: a 4-component bbox that violates the BoundingBox invariants is
\* rejected before any cache lookup and any network call.
C13_InvariantsRejected ==
    (/\ reqBody.bbox.t = "array"
     /\ Len(reqBody.bbox.items) = 4
     /\ ~BoundingBox(reqBody.bbox.items)) => RejectedUnsent

\* The arguments a route passes to getSatelliteData, after the defaults,
\* and whether it gets that far.
Accepted(b) ==
    IF b.route = "satellite-data" THEN ~InvalidBbox(b.bbox)
    ELSE b.bbox.t = "array"
Args(b) ==
    IF b.route = "satellite-data"
    THEN [bbox |-> b.bbox.items, width |-> Default(b.options.width),
          height |-> Default(b.options.height),
          maxCloudCoverage |-> DefaultCloudOf(b.options.maxCloudCoverage)]
    ELSE [bbox |-> b.bbox.items, width |-> Default(JUndefined),
          height |-> Default(JUndefined),
          maxCloudCoverage |-> DefaultCloudOf(JUndefined)]

\* C18: the cacheKey of a call is that of every request with the same
\* bbox, width and height (omitted ones being 512), and of no request that
\* differs in one of them.
C18_KeyInjective ==
    \A p \in Fetchers :
        pc[p] # "idle" =>
            /\ req[p].key = CacheKey(req[p].r)
            /\ \A b \in ApiBodies :
                  Accepted(b) =>
                      ((Args(b) = req[p].r) <=> (CacheKey(Args(b)) = req[p].key))

====
